---------------------------- MODULE Spec2Model ----------------------------
(***************************************************************************)
(* A model of bot.py: the Telegram bot that keeps a per-user conversation  *)
(* history (THREADS), forwards text to a language model (on_text), resets  *)
(* the history (reset_cmd), and scores uploaded tender tables              *)
(* (handle_document, mce_filter_scored).                                   *)
(*                                                                         *)
(* Text is a sequence of Unicode code points, so that str.lower(), the     *)
(* substring test `k in t` and re.search are computed, not assumed.        *)
(* Comments give Cyrillic words in Latin transliteration.                  *)
(***************************************************************************)
EXTENDS Integers, Sequences, FiniteSets

VARIABLES
  THREADS,   \* bot.py:30  uid -> id of the list object stored under uid (0: no key)
  lists,     \* the list objects created by get_history: uid -> id -> entries
  alloc,     \* uid -> number of list objects created for uid so far
  resets,    \* uid -> number of reset_cmd runs for uid (history variable)
  task,      \* the on_text handlers in flight: position, locals, outcome
  started,   \* number of on_text runs with a text so far
  doc,       \* the handle_document handlers in flight: position, locals, outcome
  tmpdirs,   \* the directories made by tempfile.mkdtemp that exist on disk
  ndirs,     \* number of directories tempfile.mkdtemp has made so far
  MIN_SUM,   \* bot.py:26  the amount threshold read from the environment
  df_in,     \* the table handed to mce_filter_scored
  out,       \* the table mce_filter_scored returns
  tpc,       \* position of the mce_filter_scored call: "input" | "done"
  row,       \* one table row whose name text is scored and then edited
  score,     \* the sub-scores of row, as the scoring functions return them
  prev,      \* the sub-scores of row before the last edit of its name text
  edit,      \* the last edit of row's name text: keyword index and position
  kpc        \* position of the name-text experiment: "input" | "scored" | "edited"

chatVars == <<THREADS, lists, alloc, resets, task, started>>
docVars == <<doc, tmpdirs, ndirs>>
tableVars == <<MIN_SUM, df_in, out, tpc>>
nameVars == <<row, score, prev, edit, kpc>>
vars == <<chatVars, docVars, tableVars, nameVars>>

-----------------------------------------------------------------------------
(* Text: code points, lower-casing, substring and prefix tests.            *)

\* str.lower() on one code point: Latin A-Z, Cyrillic U+0410-U+042F and U+0401.
LowerChar(c) ==
  IF c >= 65 /\ c <= 90 THEN c + 32
  ELSE IF c >= 1040 /\ c <= 1071 THEN c + 32
  ELSE IF c = 1025 THEN 1105
  ELSE c

\* str(text).lower()
Lower(t) == [i \in 1..Len(t) |-> LowerChar(t[i])]

\* Python's `k in t` for strings: k occurs in t as a contiguous substring.
IsSubstr(k, t) ==
  \E i \in 0..(Len(t) - Len(k)) : \A j \in 1..Len(k) : t[i + j] = k[j]

\* t starts with k (a regular expression "^k" under re.search, no MULTILINE).
IsPrefix(k, t) ==
  /\ Len(k) <= Len(t)
  /\ \A j \in 1..Len(k) : t[j] = k[j]

-----------------------------------------------------------------------------
(* The vocabularies, in source order, duplicates included.                  *)

KEYWORDS ==
  <<
    <<1089, 1080, 1082, 1075>>,  \* 1: sikg
    <<1089, 1080, 1082, 1085>>,  \* 2: sikn
    <<1089, 1080, 1082, 1085, 1089>>,  \* 3: sikns
    <<1089, 1080, 1082, 1082>>,  \* 4: sikk
    <<1091, 1080, 1088, 1075>>,  \* 5: uirg
    <<1091, 1091, 1075>>,  \* 6: uug
    <<1091, 1091, 1085>>,  \* 7: uun
    <<1072, 1089, 1085>>,  \* 8: asn
    <<1072, 1089, 1091, 32, 1090, 1087>>,  \* 9: asu tp
    <<1072, 1089, 1091, 1090, 1087>>,  \* 10: asutp
    <<1091, 1079, 1077, 1083, 32, 1091, 1095, 1077, 1090, 1072>>,  \* 11: uzel ucheta
    <<1091, 1079, 1077, 1083, 32, 1091, 1095, 1105, 1090, 1072>>,  \* 12: uzel uchyota
    <<1091, 1079, 1077, 1083, 32, 1080, 1079, 1084, 1077, 1088, 1077, 1085, 1080, 1103>>,  \* 13: uzel izmereniya
    <<1091, 1079, 1077, 1083, 32, 1088, 1077, 1076, 1091, 1094, 1080, 1088, 1086, 1074, 1072, 1085, 1080, 1103>>,  \* 14: uzel reducirovaniya
    <<1080, 1079, 1084, 1077, 1088, 1080, 1090, 1077, 1083, 1100>>,  \* 15: izmeritel'
    <<1080, 1079, 1084, 1077, 1088, 1080, 1090, 1077, 1083, 1100, 1085, 1072, 1103, 32, 1091, 1089, 1090, 1072, 1085, 1086, 1074, 1082, 1072>>,  \* 16: izmeritel'naya ustanovka
    <<1089, 1080, 1089, 1090, 1077, 1084, 1072, 32, 1080, 1079, 1084, 1077, 1088, 1077, 1085>>,  \* 17: sistema izmeren
    <<1089, 1080, 1089, 1090, 1077, 1084, 1072, 32, 1082, 1086, 1085, 1090, 1088, 1086, 1083, 1103>>,  \* 18: sistema kontrolya
    <<1072, 1075, 1079, 1091>>,  \* 19: agzu
    <<1080, 1079, 1084, 1077, 1088, 1080, 1090, 1077, 1083, 1100, 1085, 1072, 1103, 32, 1091, 1089, 1090, 1072, 1085, 1086, 1074, 1082, 1072>>,  \* 20: izmeritel'naya ustanovka
    <<1089, 1080, 1089, 1090, 1077, 1084, 1072, 32, 1085, 1072, 1083, 1080, 1074, 1072>>,  \* 21: sistema naliva
    <<1087, 1091, 1085, 1082, 1090, 32, 1085, 1072, 1083, 1080, 1074, 1072>>,  \* 22: punkt naliva
    <<1089, 1090, 1072, 1085, 1094, 1080, 1103, 32, 1085, 1072, 1083, 1080, 1074, 1072>>,  \* 23: stanciya naliva
    <<1089, 1080, 1089, 1090, 1077, 1084, 1072, 32, 1089, 1083, 1080, 1074, 1072>>,  \* 24: sistema sliva
    <<1087, 1091, 1085, 1082, 1090, 32, 1089, 1083, 1080, 1074, 1072>>,  \* 25: punkt sliva
    <<1101, 1089, 1090, 1072, 1082, 1072, 1076, 1072>>,  \* 26: estakada
    <<1085, 1072, 1083, 1080, 1074, 32, 1085, 1077, 1092, 1090, 1080>>,  \* 27: naliv nefti
    <<1089, 1083, 1080, 1074, 32, 1085, 1077, 1092, 1090, 1080>>,  \* 28: sliv nefti
    <<1085, 1072, 1083, 1080, 1074, 32, 1084, 1077, 1090, 1072, 1085, 1086, 1083, 1072>>,  \* 29: naliv metanola
    <<1075, 1077, 1088, 1084, 1077, 1090, 1080, 1095, 1085, 1099, 1081, 32, 1085, 1072, 1083, 1080, 1074>>,  \* 30: germetichnyj naliv
    <<1091, 1089, 1090, 1072, 1085, 1086, 1074, 1082, 1072, 32, 1076, 1086, 1079, 1080, 1088, 1086, 1074, 1072, 1085, 1080, 1103>>,  \* 31: ustanovka dozirovaniya
    <<1076, 1086, 1079, 1080, 1088, 1086, 1074, 1072, 1085>>,  \* 32: dozirovan
    <<1091, 1079, 1077, 1083, 32, 1074, 1074, 1086, 1076, 1072, 32, 1088, 1077, 1072, 1075, 1077, 1085, 1090, 1086, 1074>>,  \* 33: uzel vvoda reagentov
    <<1091, 1076, 1093>>,  \* 34: udh
    <<1091, 1076, 1093, 1073>>,  \* 35: udhb
    <<1073, 1083, 1086, 1082, 45, 1073, 1086, 1082, 1089>>,  \* 36: blok-boks
    <<1073, 1083, 1086, 1095, 1085, 1099, 1081>>,  \* 37: blochnyj
    <<1084, 1086, 1076, 1091, 1083, 1100, 1085, 1099, 1081, 32, 1073, 1083, 1086, 1082>>,  \* 38: modul'nyj blok
    <<1090, 1077, 1093, 1085, 1086, 1083, 1086, 1075, 1080, 1095, 1077, 1089, 1082, 1080, 1081, 32, 1073, 1083, 1086, 1082>>,  \* 39: tehnologicheskij blok
    <<1073, 1083, 1086, 1095, 1085, 1086, 45, 1084, 1086, 1076, 1091, 1083, 1100, 1085, 1072, 1103>>,  \* 40: blochno-modul'naya
    <<1087, 1088, 1086, 1073, 1086, 1086, 1090, 1073, 1086, 1088>>,  \* 41: probootbor
    <<1087, 1088, 1086, 1073, 1086, 1086, 1090, 1073, 1086, 1088, 1085, 1080, 1082>>,  \* 42: probootbornik
    <<1089, 1086, 1075>>,  \* 43: sog
    <<1093, 1072, 1083>>,  \* 44: hal
    <<1083, 1072, 1073, 1086, 1088, 1072, 1090, 1086, 1088>>,  \* 45: laborator
    <<1093, 1080, 1084, 1080, 1082, 1086, 45, 1072, 1085, 1072, 1083, 1080, 1090, 1080, 1095, 1077, 1089>>,  \* 46: himiko-analitiches
    <<1075, 1072, 1079, 1086, 1072, 1085, 1072, 1083, 1080, 1090, 1080, 1095, 1077, 1089>>,  \* 47: gazoanalitiches
    <<1072, 1085, 1072, 1083, 1080, 1079, 1072, 1090, 1086, 1088>>,  \* 48: analizator
    <<1093, 1088, 1086, 1084, 1072, 1090, 1086, 1075, 1088, 1072, 1092>>,  \* 49: hromatograf
    <<1084, 1077, 1090, 1088, 1086, 1083, 1086, 1075, 1080, 1095, 1077, 1089, 1082, 1080, 1081, 32, 1089, 1090, 1077, 1085, 1076>>,  \* 50: metrologicheskij stend
    <<1087, 1086, 1074, 1077, 1088, 1086, 1095, 1085, 1099, 1081, 32, 1089, 1090, 1077, 1085, 1076>>,  \* 51: poverochnyj stend
    <<1080, 1089, 1087, 1099, 1090, 1072, 1090, 1077, 1083, 1100, 1085, 1099, 1081, 32, 1089, 1090, 1077, 1085, 1076>>,  \* 52: ispytatel'nyj stend
    <<1082, 1080, 1087>>,  \* 53: kip
    <<1082, 1086, 1085, 1090, 1088, 1086, 1083, 1100, 1085, 1086, 45, 1080, 1079, 1084, 1077, 1088, 1080, 1090, 1077, 1083, 1100, 1085>>,  \* 54: kontrol'no-izmeritel'n
    <<1076, 1072, 1090, 1095, 1080, 1082>>,  \* 55: datchik
    <<1076, 1072, 1090, 1095, 1080, 1082, 1080>>,  \* 56: datchiki
    <<1084, 1072, 1085, 1086, 1084, 1077, 1090, 1088>>,  \* 57: manometr
    <<1091, 1088, 1086, 1074, 1085, 1077, 1084, 1077, 1088>>,  \* 58: urovnemer
    <<1088, 1072, 1089, 1093, 1086, 1076, 1086, 1084, 1077, 1088>>,  \* 59: rashodomer
    <<1090, 1077, 1088, 1084, 1086, 1084, 1077, 1090, 1088>>,  \* 60: termometr
    <<1090, 1077, 1088, 1084, 1086, 1087, 1072, 1088, 1072>>,  \* 61: termopara
    <<1090, 1089, 1087>>,  \* 62: tsp
    <<1088, 1090, 1076>>,  \* 63: rtd
    <<1084, 1072, 1085, 1080, 1092, 1086, 1083, 1100, 1076>>,  \* 64: manifol'd
    <<1076, 1080, 1072, 1092, 1088, 1072, 1075, 1084, 1072>>,  \* 65: diafragma
    <<1087, 1085, 1088>>,  \* 66: pnr
    <<1096, 1084, 1088>>,  \* 67: shmr
    <<1087, 1080, 1088>>,  \* 68: pir
    <<1084, 1086, 1076, 1077, 1088, 1085, 1080, 1079, 1072, 1094, 1080, 1103>>,  \* 69: modernizaciya
    <<1087, 1088, 1086, 1077, 1082, 1090, 1080, 1088, 1086, 1074, 1072, 1085, 1080, 1077>>,  \* 70: proektirovanie
    <<1082, 1086, 1084, 1087, 1083, 1077, 1082, 1089, 32, 1087, 1086, 1089, 1090, 1072, 1074, 1082, 1080>>  \* 71: kompleks postavki
  >>

CLIENTS ==
  <<
    <<1075, 1072, 1079, 1087, 1088, 1086, 1084>>,  \* 1: gazprom
    <<1075, 1072, 1079, 1087, 1088, 1086, 1084, 1085, 1077, 1092, 1090, 1100>>,  \* 2: gazpromneft'
    <<1083, 1091, 1082, 1086, 1081, 1083>>,  \* 3: lukojl
    <<1088, 1086, 1089, 1085, 1077, 1092, 1090, 1100>>,  \* 4: rosneft'
    <<1089, 1083, 1072, 1074, 1085, 1077, 1092, 1090, 1100>>,  \* 5: slavneft'
    <<1089, 1072, 1084, 1072, 1088, 1072, 1085, 1077, 1092, 1090, 1077, 1075, 1072, 1079>>,  \* 6: samaraneftegaz
    <<1085, 1103, 1075, 1072, 1085, 1100, 1085, 1077, 1092, 1090, 1100>>,  \* 7: nyagan'neft'
    <<1074, 1086, 1089, 1090, 1086, 1082, 45, 1086, 1080, 1083>>,  \* 8: vostok-oil
    <<1080, 1085, 1082>>,  \* 9: ink
    <<1085, 1085, 1082>>,  \* 10: nnk
    <<1088, 1080, 1090, 1101, 1082>>,  \* 11: ritek
    <<1073, 1072, 1096, 1085, 1077, 1092, 1090, 1100>>,  \* 12: bashneft'
    <<1084, 1077, 1090, 1072, 1092, 1088, 1072, 1082, 1089>>,  \* 13: metafraks
    <<1077, 1074, 1088, 1086, 1093, 1080, 1084>>,  \* 14: evrohim
    <<1088, 1091, 1089, 1089, 1085, 1077, 1092, 1090, 1100>>,  \* 15: russneft'
    <<1090, 1086, 1084, 1089, 1082, 1085, 1077, 1092, 1090, 1100>>,  \* 16: tomskneft'
    <<1084, 1077, 1089, 1089, 1086, 1103, 1093, 1072, 1085, 1077, 1092, 1090, 1077, 1075, 1072, 1079>>,  \* 17: messoyahaneftegaz
    <<1088, 1091, 1089, 1075, 1072, 1079>>,  \* 18: rusgaz
    <<1073, 1089, 1082>>,  \* 19: bsk
    <<1082, 1086, 1079, 1089>>,  \* 20: kozs
    <<1090, 1072, 1090, 1085, 1077, 1092, 1090, 1100>>  \* 21: tatneft'
  >>

LEAD_PATTERNS ==
  <<
    [anchored |-> TRUE, lit |-> <<1090, 1082, 1087>>],  \* 1: ^tkp
    [anchored |-> TRUE, lit |-> <<1072, 1087>>],  \* 2: ^ap
    [anchored |-> TRUE, lit |-> <<99, 111, 109>>],  \* 3: ^com
    [anchored |-> FALSE, lit |-> <<1079, 1072, 1087, 1088, 1086, 1089>>],  \* 4: zapros
    [anchored |-> FALSE, lit |-> <<1087, 1086, 1089, 1090, 1072, 1074, 1082, 1072>>],  \* 5: postavka
    [anchored |-> FALSE, lit |-> <<1089, 1080, 1089, 1090, 1077, 1084, 1072>>],  \* 6: sistema
    [anchored |-> FALSE, lit |-> <<1091, 1079, 1077, 1083>>],  \* 7: uzel
    [anchored |-> FALSE, lit |-> <<1084, 1086, 1076, 1077, 1088, 1085, 1080, 1079, 1072, 1094, 1080, 1103>>],  \* 8: modernizaciya
    [anchored |-> FALSE, lit |-> <<1087, 1088, 1086, 1077, 1082, 1090, 1080, 1088, 1086, 1074, 1072, 1085, 1080, 1077>>],  \* 9: proektirovanie
    [anchored |-> FALSE, lit |-> <<1082, 1086, 1084, 1087, 1083, 1077, 1082, 1089>>],  \* 10: kompleks
    [anchored |-> FALSE, lit |-> <<1073, 1083, 1086, 1082>>],  \* 11: blok
    [anchored |-> FALSE, lit |-> <<1072, 1089, 1091, 1090, 1087>>],  \* 12: asutp
    [anchored |-> FALSE, lit |-> <<1072, 1089, 1091, 32, 1090, 1087>>]  \* 13: asu tp
  >>
-----------------------------------------------------------------------------
(* Scoring (bot.py:150-193).                                               *)

\* _any_in: some member of bag occurs in the lower-cased text.
_any_in(text, bag) ==
  LET t == Lower(text) IN \E i \in DOMAIN bag : IsSubstr(bag[i], t)

\* re.search(p, t, re.IGNORECASE) for the patterns of LEAD_PATTERNS: each is a
\* literal in lower case, optionally anchored at the start of the text.
ReSearch(p, t) ==
  IF p.anchored THEN IsPrefix(p.lit, Lower(t)) ELSE IsSubstr(p.lit, Lower(t))

\* _any_re
_any_re(text, patterns) == \E i \in DOMAIN patterns : ReSearch(patterns[i], text)

\* sum(k in t for k in KEYWORDS): one hit per list position whose keyword occurs.
KeywordHits(s) ==
  LET t == Lower(s) IN Cardinality({i \in DOMAIN KEYWORDS : IsSubstr(KEYWORDS[i], t)})

\* _score_keywords with the top bucket tested by equality (hits == 4)
score_keywords_eq4(s) ==
  LET hits == KeywordHits(s) IN
  IF hits = 4 THEN 4
  ELSE IF hits = 3 THEN 3
  ELSE IF hits = 2 THEN 2
  ELSE IF hits = 1 THEN 1
  ELSE 0

\* _score_keywords: 0-4
_score_keywords(s) ==
  LET hits == KeywordHits(s) IN
  IF hits >= 4 THEN 4
  ELSE IF hits = 3 THEN 3
  ELSE IF hits = 2 THEN 2
  ELSE IF hits = 1 THEN 1
  ELSE 0

\* _score_client: 0 or 3
_score_client(s) == IF _any_in(s, CLIENTS) THEN 3 ELSE 0

\* A cell of the amount column: a number, or text that pd.to_numeric(...,
\* errors="coerce") turns into NaN (an empty cell after fillna(""), "n/a").
Num(v) == [num |-> TRUE, val |-> v]
NaN == [num |-> FALSE, val |-> 0]

\* amt_vals: pd.to_numeric(df[amount_col], errors="coerce").fillna(0.0)
AmtVal(cell) == IF cell.num THEN cell.val ELSE 0

\* _score_amount: 0-2
_score_amount(a) ==
  IF a >= 300000000 THEN 2
  ELSE IF a >= 50000000 THEN 1
  ELSE 0

\* _score_pattern: 0 or 1
_score_pattern(s) == IF _any_re(s, LEAD_PATTERNS) THEN 1 ELSE 0

\* _priority with the High threshold taken strictly
priority_strict(total) ==
  IF total > 7 THEN "High"
  ELSE IF total >= 4 THEN "Medium"
  ELSE "Low"

\* _priority
_priority(total) ==
  IF total >= 7 THEN "High"
  ELSE IF total >= 4 THEN "Medium"
  ELSE "Low"

\* The score columns mce_filter_scored adds to one row (bot.py:210-222).
ScoreRow(r) ==
  LET kw == _score_keywords(r.name)
      cl == _score_client(r.company)
      amt == _score_amount(AmtVal(r.amount))
      pat == _score_pattern(r.name)
  IN [kw |-> kw, cl |-> cl, amt |-> amt, pat |-> pat,
      total |-> kw + cl + amt + pat]


NoScore == [kw |-> -1, cl |-> -1, amt |-> -1, pat |-> -1, total |-> -1]

-----------------------------------------------------------------------------
(* Conversation history: THREADS, get_history, on_text, reset_cmd           *)
(* (bot.py:30, 38-71, 269-286).  Each handler is a coroutine; an action is  *)
(* the code it runs between two awaits.                                     *)

MaxMsgs == 3      \* on_text runs with a text, over all users
MaxResets == 1    \* reset_cmd runs, over all users

Users == {1, 2}   \* update.effective_user.id
Tasks == {1, 2}   \* the handler coroutines that may be in flight at once
ListIds == 1..(MaxResets + 1)

\* update.message.text: empty, or a text (already stripped).
UserTexts == {"", "q"}

\* What call_openai returns: the completion, or the warning string it builds
\* when the request fails (bot.py:62-65); it raises nothing.
Replies == {"answer", "warning"}

\* An entry "role: content" of a history; gen records how many reset_cmd runs
\* of the user preceded the write (history variable).
Entry(role, content, gen) == [role |-> role, content |-> content, gen |-> gen]

IdleTask(outcome) ==
  [pc |-> "idle", uid |-> 0, hist |-> 0, start |-> 0, stale |-> FALSE, outcome |-> outcome]

\* The list objects of user u that are still referenced: the one stored in
\* THREADS and those held in the local `hist` of a suspended handler.  The
\* others are garbage and kept empty.
Live(T, tk, u) == {T[u]} \cup {tk[t].hist : t \in {x \in Tasks : tk[x].uid = u}}

Collect(T, tk, ls) ==
  [u \in Users |-> [id \in ListIds |-> IF id \in Live(T, tk, u) THEN ls[u][id] ELSE <<>>]]

\* get_history without the seeding of an empty list
no_seed(h, gen) == h

\* get_history, lines 69-70: an empty list gets the system entry.
seed(h, gen) == IF h = <<>> THEN <<Entry("system", "SYSTEM_PROMPT", gen)>> ELSE h

\* reset_cmd that leaves the key in THREADS
keep_thread(T, u) == T

\* THREADS.pop(uid, None)
pop_thread(T, u) == [T EXCEPT ![u] = 0]

\* on_text that does not append the user's text
skip_user(h, text, gen) == h

\* hist.append(f"user: {user_text}")
append_user(h, text, gen) == Append(h, Entry("user", text, gen))

\* hist.append(f"assistant: {reply}")
append_assistant(h, reply, gen) == Append(h, Entry("assistant", reply, gen))

RECURSIVE SumOver(_, _)
SumOver(f, S) == IF S = {} THEN 0 ELSE LET x == CHOOSE y \in S : TRUE IN f[x] + SumOver(f, S \ {x})

TotalResets == SumOver(resets, Users)

InitChat ==
  /\ THREADS = [u \in Users |-> 0]
  /\ lists = [u \in Users |-> [id \in ListIds |-> <<>>]]
  /\ alloc = [u \in Users |-> 0]
  /\ resets = [u \in Users |-> 0]
  /\ task = [t \in Tasks |-> IdleTask("none")]
  /\ started = 0

\* A new handler runs in the first slot that holds no handler in flight.
FreeSlot(t) ==
  /\ task[t].pc = "idle"
  /\ \A x \in Tasks : x < t => task[x].pc # "idle"

\* on_text, line 276: no message text, the handler returns.
OnTextEmpty(t, u) ==
  /\ FreeSlot(t)
  /\ task' = [task EXCEPT ![t] = IdleTask("returned")]
  /\ UNCHANGED <<THREADS, lists, alloc, resets, started, docVars, tableVars, nameVars>>

\* on_text, lines 278-283: get_history(uid), append the user entry, then
\* await send_chat_action.
OnTextStart(t, u, text) ==
  /\ FreeSlot(t)
  /\ started < MaxMsgs
  /\ started' = started + 1
  /\ text # ""
  /\ LET fresh == THREADS[u] = 0                       \* setdefault adds the key
         id == IF fresh THEN alloc[u] + 1 ELSE THREADS[u]
         h0 == IF fresh THEN <<>> ELSE lists[u][id]
         h1 == append_user(seed(h0, resets[u]), text, resets[u])
         T1 == [THREADS EXCEPT ![u] = id]
         tk == [task EXCEPT ![t] = [pc |-> "send_chat_action", uid |-> u, hist |-> id,
                                    start |-> resets[u], stale |-> FALSE,
                                    outcome |-> "none"]]
     IN /\ id \in ListIds
        /\ THREADS' = T1
        /\ alloc' = IF fresh THEN [alloc EXCEPT ![u] = id] ELSE alloc
        /\ task' = tk
        /\ lists' = Collect(T1, tk, [lists EXCEPT ![u][id] = h1])
  /\ UNCHANGED <<resets, docVars, tableVars, nameVars>>

\* send_chat_action returns; call_openai(hist) builds the messages from the
\* list as it is now and awaits the HTTP request (bot.py:39-57).
ChatActionOk(t) ==
  /\ task[t].pc = "send_chat_action"
  /\ LET h == lists[task[t].uid][task[t].hist] IN
     task' = [task EXCEPT ![t].pc = "call_openai",
                          ![t].stale = \E i \in 1..Len(h) : h[i].gen < task[t].start]
  /\ UNCHANGED <<THREADS, lists, alloc, resets, started, docVars, tableVars, nameVars>>

\* send_chat_action raises: nothing in on_text catches it.
ChatActionFail(t) ==
  /\ task[t].pc = "send_chat_action"
  /\ task' = [task EXCEPT ![t] = IdleTask("raised")]
  /\ lists' = Collect(THREADS, task', lists)
  /\ UNCHANGED <<THREADS, alloc, resets, started, docVars, tableVars, nameVars>>

\* call_openai returns (a completion or a warning); on_text appends the
\* assistant entry to its list and awaits reply_text (bot.py:284-286).
OpenAIReturns(t, reply) ==
  /\ task[t].pc = "call_openai"
  /\ LET u == task[t].uid
         id == task[t].hist
     IN lists' = [lists EXCEPT ![u][id] = append_assistant(@, reply, resets[u])]
  /\ task' = [task EXCEPT ![t].pc = "reply_text"]
  /\ UNCHANGED <<THREADS, alloc, resets, started, docVars, tableVars, nameVars>>

\* reply_text returns: the handler returns.
ReplyOk(t) ==
  /\ task[t].pc = "reply_text"
  /\ task' = [task EXCEPT ![t] = IdleTask("returned")]
  /\ lists' = Collect(THREADS, task', lists)
  /\ UNCHANGED <<THREADS, alloc, resets, started, docVars, tableVars, nameVars>>

\* reply_text raises: nothing in on_text catches it.
ReplyFail(t) ==
  /\ task[t].pc = "reply_text"
  /\ task' = [task EXCEPT ![t] = IdleTask("raised")]
  /\ lists' = Collect(THREADS, task', lists)
  /\ UNCHANGED <<THREADS, alloc, resets, started, docVars, tableVars, nameVars>>

\* reset_cmd: THREADS.pop(uid, None) (context.user_data holds nothing and the
\* reply that follows changes no state of the bot).
reset_cmd(u) ==
  /\ TotalResets < MaxResets
  /\ THREADS' = pop_thread(THREADS, u)
  /\ resets' = [resets EXCEPT ![u] = @ + 1]
  /\ lists' = Collect(THREADS', task, lists)
  /\ UNCHANGED <<alloc, task, started, docVars, tableVars, nameVars>>

NextChat ==
  \/ \E t \in Tasks, u \in Users : OnTextEmpty(t, u)
  \/ \E t \in Tasks, u \in Users, text \in UserTexts : OnTextStart(t, u, text)
  \/ \E t \in Tasks : ChatActionOk(t)
  \/ \E t \in Tasks : ChatActionFail(t)
  \/ \E t \in Tasks, reply \in Replies : OpenAIReturns(t, reply)
  \/ \E t \in Tasks : ReplyOk(t)
  \/ \E t \in Tasks : ReplyFail(t)
  \/ \E u \in Users : reset_cmd(u)

-----------------------------------------------------------------------------
(* handle_document and _download_to_tmp (bot.py:79-83, 301-370).            *)

MaxUploads == 2   \* handle_document runs that get as far as get_file

DocTasks == {1, 2}   \* the handler coroutines that may be in flight at once

\* Path(filename).suffix.lower() in {".xlsx", ".xls", ".csv"}, or not
DocKinds == {"table", "other"}

IdleDoc(outcome) == [pc |-> "idle", kind |-> "none", dir |-> 0, outcome |-> outcome]

InitDoc ==
  /\ doc = [d \in DocTasks |-> IdleDoc("none")]
  /\ tmpdirs = {}
  /\ ndirs = 0

FreeDocSlot(d) ==
  /\ doc[d].pc = "idle"
  /\ \A x \in DocTasks : x < d => doc[x].pc # "idle"

\* shutil.rmtree(Path(local_path).parent, ignore_errors=True)
rmtree(dirs, dir) == dirs \ {dir}

\* line 302: the update carries no document, the handler returns.
DocNoDocument(d) ==
  /\ FreeDocSlot(d)
  /\ doc' = [doc EXCEPT ![d] = IdleDoc("returned")]
  /\ UNCHANGED <<tmpdirs, ndirs, chatVars, tableVars, nameVars>>

\* lines 305-309: the file name and suffix are computed, get_file is awaited.
DocStart(d, kind) ==
  /\ FreeDocSlot(d)
  /\ ndirs + Cardinality({x \in DocTasks : doc[x].pc = "get_file"}) < MaxUploads
  /\ doc' = [doc EXCEPT ![d] = [pc |-> "get_file", kind |-> kind, dir |-> 0,
                                outcome |-> "none"]]
  /\ UNCHANGED <<tmpdirs, ndirs, chatVars, tableVars, nameVars>>

\* get_file raises: no try encloses line 309.
GetFileFail(d) ==
  /\ doc[d].pc = "get_file"
  /\ doc' = [doc EXCEPT ![d] = IdleDoc("raised")]
  /\ UNCHANGED <<tmpdirs, ndirs, chatVars, tableVars, nameVars>>

\* get_file returns; _download_to_tmp makes the directory (mkdtemp) and
\* awaits download_to_drive.
GetFileOk(d) ==
  /\ doc[d].pc = "get_file"
  /\ ndirs' = ndirs + 1
  /\ tmpdirs' = tmpdirs \cup {ndirs + 1}
  /\ doc' = [doc EXCEPT ![d].pc = "download", ![d].dir = ndirs + 1]
  /\ UNCHANGED <<chatVars, tableVars, nameVars>>

\* download_to_drive raises: no try encloses line 310, and local_path was
\* never bound, so nothing removes the directory.
DownloadFail(d) ==
  /\ doc[d].pc = "download"
  /\ doc' = [doc EXCEPT ![d] = IdleDoc("raised")]
  /\ UNCHANGED <<tmpdirs, ndirs, chatVars, tableVars, nameVars>>

\* The download is done and the file is a table: lines 314-341 run without an
\* await (read, score, preview, workbook bytes); then reply_text is awaited.
TableProcessed(d) ==
  /\ doc[d].pc = "download" /\ doc[d].kind = "table"
  /\ doc' = [doc EXCEPT ![d].pc = "reply_text"]
  /\ UNCHANGED <<tmpdirs, ndirs, chatVars, tableVars, nameVars>>

\* ... or one of these steps raises (parse failure, scoring failure): the
\* except clause awaits reply_text with the error.
TableFailed(d) ==
  /\ doc[d].pc = "download" /\ doc[d].kind = "table"
  /\ doc' = [doc EXCEPT ![d].pc = "error_reply"]
  /\ UNCHANGED <<tmpdirs, ndirs, chatVars, tableVars, nameVars>>

\* the summary was sent; reply_document is awaited (line 350)
ReplyTextOk(d) ==
  /\ doc[d].pc = "reply_text"
  /\ doc' = [doc EXCEPT ![d].pc = "reply_document"]
  /\ UNCHANGED <<tmpdirs, ndirs, chatVars, tableVars, nameVars>>

\* sending the summary raises, inside the try: the except clause runs
ReplyTextFail(d) ==
  /\ doc[d].pc = "reply_text"
  /\ doc' = [doc EXCEPT ![d].pc = "error_reply"]
  /\ UNCHANGED <<tmpdirs, ndirs, chatVars, tableVars, nameVars>>

\* the workbook was sent: finally removes the directory, the handler returns
ReplyDocumentOk(d) ==
  /\ doc[d].pc = "reply_document"
  /\ tmpdirs' = rmtree(tmpdirs, doc[d].dir)
  /\ doc' = [doc EXCEPT ![d] = IdleDoc("returned")]
  /\ UNCHANGED <<ndirs, chatVars, tableVars, nameVars>>

\* sending the workbook raises, inside the try: the except clause runs
ReplyDocumentFail(d) ==
  /\ doc[d].pc = "reply_document"
  /\ doc' = [doc EXCEPT ![d].pc = "error_reply"]
  /\ UNCHANGED <<tmpdirs, ndirs, chatVars, tableVars, nameVars>>

\* the error message of the except clause was sent (line 356): finally, return
ErrorReplyOk(d) ==
  /\ doc[d].pc = "error_reply"
  /\ tmpdirs' = rmtree(tmpdirs, doc[d].dir)
  /\ doc' = [doc EXCEPT ![d] = IdleDoc("returned")]
  /\ UNCHANGED <<ndirs, chatVars, tableVars, nameVars>>

\* sending the error message raises inside the except clause: finally runs
\* and the exception leaves the handler
ErrorReplyFail(d) ==
  /\ doc[d].pc = "error_reply"
  /\ tmpdirs' = rmtree(tmpdirs, doc[d].dir)
  /\ doc' = [doc EXCEPT ![d] = IdleDoc("raised")]
  /\ UNCHANGED <<ndirs, chatVars, tableVars, nameVars>>

\* The download is done and the file is no table: it is opened and
\* reply_document is awaited (lines 362-368).  The file was just written by
\* the download, so open() is taken to succeed; were it to raise, finally
\* would run as in EchoFail.
EchoStart(d) ==
  /\ doc[d].pc = "download" /\ doc[d].kind = "other"
  /\ doc' = [doc EXCEPT ![d].pc = "echo"]
  /\ UNCHANGED <<tmpdirs, ndirs, chatVars, tableVars, nameVars>>

\* the file was sent back: finally removes the directory, the handler returns
EchoOk(d) ==
  /\ doc[d].pc = "echo"
  /\ tmpdirs' = rmtree(tmpdirs, doc[d].dir)
  /\ doc' = [doc EXCEPT ![d] = IdleDoc("returned")]
  /\ UNCHANGED <<ndirs, chatVars, tableVars, nameVars>>

\* sending it back raises: the try has no except clause; finally runs and the
\* exception leaves the handler
EchoFail(d) ==
  /\ doc[d].pc = "echo"
  /\ tmpdirs' = rmtree(tmpdirs, doc[d].dir)
  /\ doc' = [doc EXCEPT ![d] = IdleDoc("raised")]
  /\ UNCHANGED <<ndirs, chatVars, tableVars, nameVars>>

NextDoc ==
  \/ \E d \in DocTasks : DocNoDocument(d)
  \/ \E d \in DocTasks, kind \in DocKinds : DocStart(d, kind)
  \/ \E d \in DocTasks : GetFileFail(d)
  \/ \E d \in DocTasks : GetFileOk(d)
  \/ \E d \in DocTasks : DownloadFail(d)
  \/ \E d \in DocTasks : TableProcessed(d)
  \/ \E d \in DocTasks : TableFailed(d)
  \/ \E d \in DocTasks : ReplyTextOk(d)
  \/ \E d \in DocTasks : ReplyTextFail(d)
  \/ \E d \in DocTasks : ReplyDocumentOk(d)
  \/ \E d \in DocTasks : ReplyDocumentFail(d)
  \/ \E d \in DocTasks : ErrorReplyOk(d)
  \/ \E d \in DocTasks : ErrorReplyFail(d)
  \/ \E d \in DocTasks : EchoStart(d)
  \/ \E d \in DocTasks : EchoOk(d)
  \/ \E d \in DocTasks : EchoFail(d)

-----------------------------------------------------------------------------
(* Scoring one row, then inserting a keyword occurrence into its name text  *)
(* and scoring it again.                                                   *)

MaxFrags == 2

\* Name texts are made of at most MaxFrags of these pieces.
Frags ==
  { <<1090, 1082, 1087, 32>>,                                      \* "tkp "
    <<1076, 1072, 1090, 1095, 1080, 1082, 1080, 32, 1082, 1080, 1087, 32,
      1089, 1086, 1075>>,                                          \* "datchiki kip sog"
    <<1080, 1079, 1084, 1077, 1088, 1080, 1090, 1077, 1083, 1100, 1085, 1072,
      1103, 32, 1091, 1089, 1090, 1072, 1085, 1086, 1074, 1082, 1072>>,
                                                                   \* "izmeritel'naya ustanovka"
    <<1059, 1079, 1077, 1083>>,                                    \* "Uzel" (capital U)
    <<1082, 1080, 1087>> }                                         \* "kip"

RECURSIVE FragTexts(_)
FragTexts(n) ==
  IF n = 0 THEN {<<>>}
  ELSE LET S == FragTexts(n - 1) IN S \cup {s \o f : s \in S, f \in Frags}

NameTexts == FragTexts(MaxFrags)

\* "OOO Romashka" (no client) and "PAO Gazprom" (a client, capitalised).
Companies ==
  { <<1054, 1054, 1054, 32, 1056, 1086, 1084, 1072, 1096, 1082, 1072>>,
    <<1055, 1040, 1054, 32, 1043, 1072, 1079, 1087, 1088, 1086, 1084>> }

\* Positions in KEYWORDS of the keywords that are inserted:
\* 44 "hal", 53 "kip", 70 "proektirovanie" (also a lead pattern).
EditKeywords == {44, 53, 70}

NoEdit == [kw |-> 0, pos |-> 0]

\* text with the keyword k put in after its first p characters
InsertAt(text, k, p) == SubSeq(text, 1, p) \o k \o SubSeq(text, p + 1, Len(text))

InitName ==
  /\ row \in [name : NameTexts, company : Companies, amount : {Num(0)}]
  /\ score = NoScore
  /\ prev = NoScore
  /\ edit = NoEdit
  /\ kpc = "input"

\* The row is scored as mce_filter_scored scores it.
ScoreName ==
  /\ kpc = "input"
  /\ score' = ScoreRow(row)
  /\ kpc' = "scored"
  /\ UNCHANGED <<row, prev, edit, chatVars, docVars, tableVars>>

\* An occurrence of KEYWORDS[k] is inserted into the name text at position p,
\* the other columns stay, and the row is scored again.
InsertKeyword(k, p) ==
  /\ kpc = "scored"
  /\ row' = [row EXCEPT !.name = InsertAt(row.name, KEYWORDS[k], p)]
  /\ prev' = score
  /\ score' = ScoreRow(row')
  /\ edit' = [kw |-> k, pos |-> p]
  /\ kpc' = "edited"
  /\ UNCHANGED <<chatVars, docVars, tableVars>>

NextName ==
  \/ ScoreName
  \/ \E k \in EditKeywords : \E p \in 0..Len(row.name) : InsertKeyword(k, p)

IdleTable == MIN_SUM = 0 /\ df_in = <<>> /\ out = <<>> /\ tpc = "input"
IdleName == row = <<>> /\ score = NoScore /\ prev = NoScore /\ edit = NoEdit /\ kpc = "input"

InitNameSpec == InitName /\ InitChat /\ InitDoc /\ IdleTable

InitSpec == InitDoc /\ InitChat /\ IdleTable /\ IdleName

Spec == InitSpec /\ [][NextChat]_vars

InitDocSpec == InitDoc /\ InitChat /\ IdleTable /\ IdleName

SpecDoc == InitDocSpec /\ [][NextDoc]_vars

SpecName == InitNameSpec /\ [][NextName]_vars

-----------------------------------------------------------------------------
(* mce_filter_scored (bot.py:195-260) on a table whose name, company and    *)
(* amount columns have been found.  A row keeps its index label idx.        *)

MaxRows == 2

\* Name cells: "nasos" (nothing matches), "Uzel" (a pattern only), "kip" (one
\* keyword only), "tkp datchiki kip sog" (four keyword hits and a pattern).
TableNames ==
  { <<1085, 1072, 1089, 1086, 1089>>,
    <<1059, 1079, 1077, 1083>>,
    <<1082, 1080, 1087>>,
    <<1090, 1082, 1087, 32, 1076, 1072, 1090, 1095, 1080, 1082, 1080, 32,
      1082, 1080, 1087, 32, 1089, 1086, 1075>> }

\* Amount cells: not a number, negative, zero, and the two scoring thresholds.
TableAmounts == {NaN, Num(-1), Num(0), Num(50000000), Num(300000000)}

TableRows == [name : TableNames, company : Companies, amount : TableAmounts]

\* Values of the environment variable MIN_SUM (bot.py:26): negative, the
\* default 0, and a positive threshold.
MinSums == {-1, 0, 50000000}

RECURSIVE Tables(_)
Tables(n) ==
  IF n = 0 THEN {<<>>}
  ELSE LET S == Tables(n - 1) IN S \cup {Append(t, r) : t \in S, r \in TableRows}

\* The score columns of every row value, computed once and looked up.
ScoreTable == {<<r, ScoreRow(r)>> : r \in TableRows}
Scores == [r \in TableRows |-> (CHOOSE p \in ScoreTable : p[1] = r)[2]]

\* base_mask (bot.py:225)
base_mask(sc) == sc.kw >= 1 \/ sc.cl >= 1 \/ sc.pat >= 1

\* sum_mask (bot.py:231-234)
sum_mask(r, sc, minsum) ==
  IF minsum <= 0 THEN AmtVal(r.amount) >= 0
  ELSE AmtVal(r.amount) >= minsum \/ sc.kw >= 1 \/ sc.pat >= 1

\* _reason: the parts of the explanation, in the order they are appended
_reason(sc) ==
  (IF sc.kw > 0 THEN <<"keywords">> ELSE <<>>)
  \o (IF sc.cl > 0 THEN <<"client">> ELSE <<>>)
  \o (IF sc.amt > 0 THEN <<"amount">> ELSE <<>>)
  \o (IF sc.pat > 0 THEN <<"pattern">> ELSE <<>>)

\* prio_order (bot.py:241)
prio_order(p) == IF p = "High" THEN 0 ELSE IF p = "Medium" THEN 1 ELSE 2

\* One row of `out` before sorting: the input row, its index label, the score
\* columns, Priority and the explanation (bot.py:216-238).
OutRow(df, i) ==
  LET sc == Scores[df[i]] IN
  [idx |-> i, name |-> df[i].name, company |-> df[i].company, amount |-> df[i].amount,
   kw |-> sc.kw, cl |-> sc.cl, amt |-> sc.amt, pat |-> sc.pat, total |-> sc.total,
   Priority |-> _priority(sc.total), reason |-> _reason(sc)]

\* Row a sorts before row b by one sort key of sort_values: the key function
\* maps Priority through prio_order and the other columns through
\* pd.to_numeric(errors="coerce"); ascending is [True, False, False]; NaN keys
\* go last (na_position="last").
AmountAscending(a, b) == a.amount.num /\ (~b.amount.num \/ a.amount.val < b.amount.val)
AmountBefore(a, b) == a.amount.num /\ (~b.amount.num \/ a.amount.val > b.amount.val)
AmountSame(a, b) ==
  \/ a.amount.num /\ b.amount.num /\ a.amount.val = b.amount.val
  \/ ~a.amount.num /\ ~b.amount.num

KeyBefore(a, b) ==
  \/ prio_order(a.Priority) < prio_order(b.Priority)
  \/ /\ prio_order(a.Priority) = prio_order(b.Priority)
     /\ \/ a.total > b.total
        \/ a.total = b.total /\ AmountBefore(a, b)

KeySame(a, b) ==
  /\ prio_order(a.Priority) = prio_order(b.Priority)
  /\ a.total = b.total
  /\ AmountSame(a, b)

\* DataFrame.sort_values on several columns: a lexicographic sort that keeps
\* rows with equal keys in their order of arrival.
sort_values(rows) ==
  LET n == Len(rows)
      Before(i, j) == KeyBefore(rows[i], rows[j]) \/ (KeySame(rows[i], rows[j]) /\ i < j)
      rank(i) == 1 + Cardinality({j \in 1..n : Before(j, i)})
  IN [k \in 1..n |-> rows[CHOOSE i \in 1..n : rank(i) = k]]

\* the rows of df from position i on that pass both masks, in table order
RECURSIVE SelectIdx(_, _, _)
SelectIdx(df, minsum, i) ==
  IF i > Len(df) THEN <<>>
  ELSE (IF base_mask(Scores[df[i]]) /\ sum_mask(df[i], Scores[df[i]], minsum)
        THEN <<OutRow(df, i)>> ELSE <<>>)
       \o SelectIdx(df, minsum, i + 1)

\* mce_filter_scored: the rows passing both masks, annotated, then sorted.
mce_filter_scored(df, minsum) == sort_values(SelectIdx(df, minsum, 1))

InitTable ==
  /\ MIN_SUM \in MinSums
  /\ df_in \in Tables(MaxRows)
  /\ out = <<>>
  /\ tpc = "input"

\* handle_document calls mce_filter_scored(df) (bot.py:315).
FilterScored ==
  /\ tpc = "input"
  /\ out' = mce_filter_scored(df_in, MIN_SUM)
  /\ tpc' = "done"
  /\ UNCHANGED <<MIN_SUM, df_in, chatVars, docVars, nameVars>>

NextTable == FilterScored

InitTableSpec == InitTable /\ InitChat /\ InitDoc /\ IdleName

SpecTable == InitTableSpec /\ [][NextTable]_vars

-----------------------------------------------------------------------------
(* Claims about the conversation history and the handlers (Spec).           *)

\* the history stored in THREADS for user u (empty when there is no key)
History(u) == IF THREADS[u] = 0 THEN <<>> ELSE lists[u][THREADS[u]]

\* no on_text handler of user u is in flight
Quiet(u) == \A t \in Tasks : task[t].uid # u

SeqPrefix(a, b) == Len(a) <= Len(b) /\ \A i \in 1..Len(a) : a[i] = b[i]

\* C4 as stated: no exception escapes a user-facing handler.
C4_NoExceptionEscapes ==
  /\ \A t \in Tasks : task[t].outcome # "raised"
  /\ \A d \in DocTasks : doc[d].outcome # "raised"

\* C3 as stated: every directory made for an upload is gone once the handler
\* that made it has exited; the directories on disk belong to handlers in flight.
C3_TmpDirsDeletedOnExit ==
  tmpdirs \subseteq {doc[d].dir : d \in {x \in DocTasks : doc[x].pc # "idle"}}

\* C5, state part: a non-empty stored history starts with the system entry.
C5_StartsWithSystem ==
  \A u \in Users : History(u) # <<>> => History(u)[1].role = "system"

\* C5, step part: while the key of a user stays in THREADS (no reset in
\* between), the stored history only grows at its end; a key that appears
\* holds a history seeded with the system entry.
C5_GrowsAtEnd ==
  \A u \in Users :
    /\ (THREADS[u] # 0 /\ THREADS'[u] # 0)
          => (THREADS'[u] = THREADS[u] /\ SeqPrefix(History(u), History(u)'))
    /\ (THREADS[u] = 0 /\ THREADS'[u] # 0) => History(u)'[1].role = "system"

\* C5: in every reachable state a non-empty stored history starts with the
\* system entry, and between two resets of a user the stored history only
\* grows at its end.
C5_SeededAppendOnly == []C5_StartsWithSystem /\ [][C5_GrowsAtEnd]_vars

\* C5 witness: a stored history that has grown to a second user entry.
C5_Witness ==
  \E u \in Users :
    /\ Len(History(u)) >= 4
    /\ History(u)[1].role = "system"
    /\ History(u)[4].role = "user"

\* C6, state part: every entry of a stored history was written after the
\* user's last reset, and no handler sent the language model an entry written
\* before a reset that preceded the handler's start.
C6_NothingOldStoredOrSent ==
  /\ \A u \in Users : \A i \in 1..Len(History(u)) : History(u)[i].gen = resets[u]
  /\ \A t \in Tasks : ~task[t].stale

\* C6, step part: a reset of one user leaves the other users' histories as
\* they are.
C6_OthersUntouched ==
  \A u \in Users : resets'[u] # resets[u] =>
    /\ THREADS'[u] = 0
    /\ \A v \in Users \ {u} : THREADS'[v] = THREADS[v] /\ lists'[v] = lists[v]

\* C6: once reset_cmd has run for a user, no entry written for that user
\* before the reset is stored in THREADS or sent to the language model by a
\* handler started after the reset, also when a handler of the user was
\* suspended during the reset and appends afterwards; other users' histories
\* are unchanged by the reset.
C6_ResetClearsContext == []C6_NothingOldStoredOrSent /\ [][C6_OthersUntouched]_vars

\* C6 witness: a handler that was suspended during the reset has appended its
\* assistant entry afterwards (to the list it holds), while a handler started
\* after the reset has called the language model with the new history.
C6_Witness ==
  \E u \in Users : \E t1, t2 \in Tasks :
    /\ resets[u] = 1
    /\ task[t1].uid = u /\ task[t1].start = 0 /\ task[t1].pc = "reply_text"
    /\ LET old == lists[u][task[t1].hist] IN old[Len(old)].gen = 1
    /\ task[t2].uid = u /\ task[t2].start = 1 /\ task[t2].pc = "call_openai"
    /\ THREADS[u] = task[t2].hist

\* the entries after the first alternate user, assistant, user, assistant, ...
Alternates(h) ==
  /\ Len(h) % 2 = 1
  /\ \A i \in 2..Len(h) : h[i].role = IF i % 2 = 0 THEN "user" ELSE "assistant"

\* in every prefix of the entries after the first, the assistant entries are
\* no more than the user entries
AnswersFollowQuestions(h) ==
  \A n \in 2..Len(h) :
    Cardinality({i \in 2..n : h[i].role = "assistant"})
      <= Cardinality({i \in 2..n : h[i].role = "user"})

\* C10 as stated: while no on_text handler of a user is in flight, the stored
\* history is absent or is the system entry followed by strictly alternating
\* user and assistant entries.
C10_QuietHistoryAlternates ==
  \A u \in Users :
    (Quiet(u) /\ THREADS[u] # 0) =>
      (History(u)[1].role = "system" /\ Alternates(History(u)))

\* C10 amended: while no on_text handler of a user is in flight, the stored
\* history is absent or is the system entry followed by user and assistant
\* entries only, with no more assistant entries than user entries in any
\* prefix.
C10_QuietHistoryWellFormed ==
  \A u \in Users :
    (Quiet(u) /\ THREADS[u] # 0) =>
      LET h == History(u) IN
      /\ h # <<>>
      /\ h[1].role = "system"
      /\ \A i \in 2..Len(h) : h[i].role \in {"user", "assistant"}
      /\ AnswersFollowQuestions(h)

\* C10 witness: no handler of the user is in flight and the stored history
\* has two user entries in a row, the first left by a handler that failed at
\* send_chat_action.
C10_Witness ==
  \E u \in Users :
    /\ Quiet(u)
    /\ Len(History(u)) = 4
    /\ History(u)[2].role = "user" /\ History(u)[3].role = "user"
    /\ History(u)[4].role = "assistant"

-----------------------------------------------------------------------------
(* Claims about mce_filter_scored (SpecTable).                              *)

\* the index labels of the rows of out
OutIdx == {out[k].idx : k \in 1..Len(out)}

\* the semantic gate and the amount gate of C1, on the score columns
SemanticGate(sc) == sc.kw >= 1 \/ sc.cl >= 1 \/ sc.pat >= 1
AmountGate(r, sc) ==
  \/ MIN_SUM <= 0
  \/ AmtVal(r.amount) >= MIN_SUM \/ sc.kw >= 1 \/ sc.pat >= 1

\* C1 as stated: the output holds exactly the input rows that pass the
\* semantic gate and the amount gate, each once and with its cells unchanged;
\* the amount gate admits every row when MIN_SUM <= 0.
C1_OutputIsRowsPassingBothGates ==
  tpc = "done" =>
    /\ OutIdx = {i \in 1..Len(df_in) :
                   SemanticGate(Scores[df_in[i]]) /\ AmountGate(df_in[i], Scores[df_in[i]])}
    /\ Len(out) = Cardinality(OutIdx)
    /\ \A k \in 1..Len(out) :
         /\ out[k].name = df_in[out[k].idx].name
         /\ out[k].company = df_in[out[k].idx].company
         /\ out[k].amount = df_in[out[k].idx].amount

\* High before Medium before Low
Tier(p) == CASE p = "High" -> 1 [] p = "Medium" -> 2 [] p = "Low" -> 3

\* C2: in the output, a row never comes after a row of a lower tier; within a
\* tier, never after a row of lower total; within equal tier and total, a
\* numeric amount never comes after a lower numeric amount; and rows with
\* identical Priority, total and amount keep their input order.
C2_SortedAndStable ==
  tpc = "done" =>
    \A i, j \in 1..Len(out) : i < j =>
      LET a == out[i]
          b == out[j]
      IN /\ Tier(a.Priority) <= Tier(b.Priority)
         /\ a.Priority = b.Priority => a.total >= b.total
         /\ (a.Priority = b.Priority /\ a.total = b.total
               /\ a.amount.num /\ b.amount.num) => a.amount.val >= b.amount.val
         /\ (a.Priority = b.Priority /\ a.total = b.total /\ a.amount = b.amount)
              => a.idx < b.idx

\* C2 witness: the sort moved a row with a larger amount in front of an
\* earlier row of the same tier and total.
C2_Witness ==
  /\ tpc = "done"
  /\ Len(out) >= 2
  /\ out[1].Priority = out[2].Priority /\ out[1].total = out[2].total
  /\ out[1].amount.num /\ out[2].amount.num
  /\ out[1].amount.val > out[2].amount.val
  /\ out[1].idx > out[2].idx

\* C9: every output row's total is the sum of its four sub-scores, lies in
\* 0..10, and fixes the Priority: High iff total >= 7, Medium iff
\* 4 <= total < 7, Low iff total < 4.
C9_PriorityPartition ==
  tpc = "done" =>
    \A k \in 1..Len(out) :
      LET r == out[k] IN
      /\ r.total = r.kw + r.cl + r.amt + r.pat
      /\ r.total \in 0..10
      /\ r.Priority \in {"High", "Medium", "Low"}
      /\ r.Priority = "High" <=> r.total >= 7
      /\ r.Priority = "Medium" <=> (r.total >= 4 /\ r.total < 7)
      /\ r.Priority = "Low" <=> r.total < 4

\* C9 witness: an output with a row of total 7 (High) and a row of total 6
\* (Medium).
C9_Witness ==
  /\ tpc = "done"
  /\ \E i, j \in 1..Len(out) :
       /\ out[i].total = 7 /\ out[i].Priority = "High"
       /\ out[j].total = 6 /\ out[j].Priority = "Medium"

-----------------------------------------------------------------------------
(* Claims about the scoring of a name text (SpecName).                      *)

Min(a, b) == IF a <= b THEN a ELSE b

\* the distinct keywords of the vocabulary that occur in the lower-cased text
DistinctKeywords(s) ==
  LET t == Lower(s) IN {KEYWORDS[i] : i \in {j \in DOMAIN KEYWORDS : IsSubstr(KEYWORDS[j], t)}}

\* the name text of row before the edit
NameBeforeEdit ==
  LET k == KEYWORDS[edit.kw] IN
  SubSeq(row.name, 1, edit.pos) \o SubSeq(row.name, edit.pos + Len(k) + 1, Len(row.name))

\* C7 as stated: after a keyword occurrence is inserted into the name text at
\* any position, the other columns unchanged, the keyword sub-score and the
\* total score are not less than before.
C7_InsertAnywhereMonotonic ==
  kpc = "edited" => score.kw >= prev.kw /\ score.total >= prev.total

\* C7 amended: after a keyword occurrence is appended at the end of the name
\* text, the other columns unchanged, the keyword sub-score and the total
\* score are not less than before.
C7_AppendMonotonic ==
  (kpc = "edited" /\ edit.pos = Len(NameBeforeEdit))
    => score.kw >= prev.kw /\ score.total >= prev.total

\* C7 witness: a keyword was appended to a text that already had keyword
\* sub-score 4 and a pattern match; the scores stayed.
C7_Witness ==
  /\ kpc = "edited"
  /\ edit.pos = Len(NameBeforeEdit)
  /\ prev.kw = 4 /\ prev.pat = 1 /\ score.total = prev.total

\* C8 as stated: the keyword sub-score of a scored row is min(4, number of
\* distinct vocabulary keywords occurring in the lower-cased name text).
C8_KeywordScoreIsDistinctCount ==
  kpc # "input" => score.kw = Min(4, Cardinality(DistinctKeywords(row.name)))

=============================================================================
